---- MODULE Spec2Model ----
(***************************************************************************)
(* Presence-aware event dispatcher of the Todo back end.                   *)
(*                                                                         *)
(*   src/src/socket/socket.js            socket.io server: authentication  *)
(*                                       middleware, connection registry,  *)
(*                                       task:update / task:assign /       *)
(*                                       comment:new / disconnect handlers *)
(*   src/src/controllers/taskController.js                                 *)
(*                                       HTTP producers createTask,        *)
(*                                       updateTask, deleteTask,           *)
(*                                       addComment, and createNotification*)
(*                                                                         *)
(* Node runs every handler on one event loop: a handler runs without       *)
(* interruption up to its next `await`, where other handlers may run.      *)
(* Each action below is one such uninterrupted stretch.                    *)
(***************************************************************************)
EXTENDS Integers, Sequences, FiniteSets, TLC

\* ------------------------------------------------------------------ bounds
MaxUsers == 3
MaxConns == 3
MaxCalls == 1
MaxList  == 2
MaxTasks == 1
MaxRequests == 1

Users   == 1..MaxUsers
Sids    == 1..MaxConns
TaskIds == 1..MaxTasks

\* socket.userId of a socket the middleware never set it on
NoUser == 0
\* call.sock of an event that no socket emitted (an HTTP request)
NoSock == 0

VARIABLES
    sockets,         \* every connection attempt so far; socket.id is its index
    connectedUsers,  \* the Map userId -> socket.id of socket.js
    rooms,           \* socket.io adapter: set of <<room, socket.id>>
    listening,       \* socket ids whose event handlers were installed
    notifications,   \* the Notification collection, in creation order
    tasks,           \* the Task collection; task._id is its index
    calls,           \* handler invocations (socket events, HTTP requests)
    lastDisconnect   \* the most recent user:disconnect broadcast

vars == <<sockets, connectedUsers, rooms, listening, notifications, tasks,
          calls, lastDisconnect>>

\* ------------------------------------------------------------- JS helpers
\* Map.prototype.has / get / set / delete
MapHas(m, k) == k \in DOMAIN m
MapGet(m, k) == m[k]

\* a registry that adds to what it already holds for the key instead of
\* replacing it
MapSetAccumulating(m, k, v) ==
    [x \in (DOMAIN m) \cup {k} |->
        IF x = k THEN (IF k \in DOMAIN m THEN m[k] + v ELSE v) ELSE m[x]]

MapSet(m, k, v) == [x \in (DOMAIN m) \cup {k} |-> IF x = k THEN v ELSE m[x]]

\* a delete that removes nothing (a key of another type never matches)
MapDeleteNothing(m, k) == m

\* a delete that empties the registry
MapClear(m, k) == [x \in {} |-> m[x]]

MapDelete(m, k) == [x \in (DOMAIN m) \ {k} |-> m[x]]

EmptyMap == [x \in {} |-> 0]

Range(s) == {s[i] : i \in 1..Len(s)}

\* [...new Set(arr)]: first occurrences, in order
RECURSIVE Dedupe(_)
Dedupe(arr) ==
    IF arr = <<>> THEN <<>>
    ELSE LET front == Dedupe(SubSeq(arr, 1, Len(arr) - 1))
             last  == arr[Len(arr)]
         IN  IF last \in Range(front) THEN front ELSE Append(front, last)

\* arrays a client or a request body can supply
Lists == UNION {[1..n -> Users] : n \in 0..MaxList}

\* ------------------------------------------------------------ socket.io
UserRoom(u) == <<"user", u>>
SidRoom(s)  == <<"sid", s>>

\* sockets currently connected
OpenSids == {s \in 1..Len(sockets) : sockets[s].state = "open"}
OpenSidsOf(u) == {s \in OpenSids : sockets[s].userId = u}

\* io.to(room): the connected sockets in a room
InRoom(room) == {s \in OpenSids : <<room, s>> \in rooms}

\* ---------------------------------------------------------- credentials
\* socket.handshake.auth.token: absent, or a JWT that jwt.verify accepts or
\* throws on (bad signature, malformed, expired); id is the payload's id
Tokens ==
    {[kind |-> "absent", id |-> NoUser]}
    \cup [kind : {"invalid", "valid"}, id : Users]

\* next(new Error('Authentication error'))
AuthError == [ok |-> FALSE, userId |-> NoUser]

\* the middleware with jwt.decode in place of jwt.verify: any token that is
\* present is taken at its word
AuthenticateUnverified(token) ==
    IF token.kind = "absent" THEN AuthError
    ELSE [ok |-> TRUE, userId |-> token.id]

\* io.use middleware: the error it passes to next(), or the socket.userId it
\* sets before calling next()
Authenticate(token) ==
    IF token.kind = "absent" THEN AuthError
    ELSE IF token.kind = "valid" THEN [ok |-> TRUE, userId |-> token.id]
    ELSE AuthError

\* ---------------------------------------------------------------- Init
Init ==
    /\ sockets = <<>>
    /\ connectedUsers = EmptyMap
    /\ rooms = {}
    /\ listening = {}
    /\ notifications = <<>>
    /\ tasks = <<>>
    /\ calls = <<>>
    /\ lastDisconnect = [sid |-> NoSock, userId |-> NoUser, to |-> {}, stillOpen |-> {}]

\* ------------------------------------------------- connect / disconnect
\* a connection handler that keeps the entry a user already has
RegisterKeepFirst(sid, userId) ==
    /\ connectedUsers' = IF MapHas(connectedUsers, userId) THEN connectedUsers
                          ELSE MapSet(connectedUsers, userId, sid)
    /\ rooms' = rooms \cup {<<SidRoom(sid), sid>>, <<UserRoom(userId), sid>>}
    /\ listening' = listening \cup {sid}

\* io.on('connection'): register, join the personal room, install handlers.
\* socket.io itself puts the socket in the room named by its own id.
Register(sid, userId) ==
    /\ connectedUsers' = MapSet(connectedUsers, userId, sid)
    /\ rooms' = rooms \cup {<<SidRoom(sid), sid>>, <<UserRoom(userId), sid>>}
    /\ listening' = listening \cup {sid}

\* a client opens a connection presenting `token`
Connect(token) ==
    LET sid == Len(sockets) + 1
        res == Authenticate(token)
    IN  /\ sid \in Sids
        /\ IF ~res.ok
           THEN /\ sockets' = Append(sockets,
                        [state |-> "rejected", userId |-> NoUser, cred |-> token.kind])
                /\ UNCHANGED <<connectedUsers, rooms, listening>>
           ELSE /\ sockets' = Append(sockets,
                        [state |-> "open", userId |-> res.userId, cred |-> token.kind])
                /\ Register(sid, res.userId)
        /\ UNCHANGED <<notifications, tasks, calls, lastDisconnect>>

\* a disconnect handler that also stores the notice for every user the
\* registry shows offline
DisconnectWithFallback(sid) ==
    /\ sid \in OpenSids
    /\ LET userId == sockets[sid].userId
           absent == {u \in Users : ~MapHas(MapDelete(connectedUsers, userId), u)}
           pick   == CHOOSE u \in absent : TRUE
       IN  /\ sockets' = [sockets EXCEPT ![sid].state = "closed"]
           /\ rooms' = {p \in rooms : p[2] # sid}
           /\ connectedUsers' = MapDelete(connectedUsers, userId)
           /\ lastDisconnect' = [sid |-> sid, userId |-> userId,
                                 to |-> OpenSids \ {sid},
                                 stillOpen |-> OpenSidsOf(userId) \ {sid}]
           /\ notifications' = Append(notifications,
                  [user |-> pick, type |-> "user:disconnect", taskId |-> 0,
                   message |-> "User went offline", read |-> FALSE])
    /\ UNCHANGED <<listening, tasks, calls>>

\* socket.on('disconnect'); socket.io has removed the socket from its rooms
Disconnect(sid) ==
    /\ sid \in OpenSids
    /\ LET userId == sockets[sid].userId
       IN  /\ sockets' = [sockets EXCEPT ![sid].state = "closed"]
           /\ rooms' = {p \in rooms : p[2] # sid}
           /\ connectedUsers' = MapDelete(connectedUsers, userId)
           /\ lastDisconnect' = [sid |-> sid, userId |-> userId,
                                 to |-> OpenSids \ {sid},
                                 stillOpen |-> OpenSidsOf(userId) \ {sid}]
    /\ UNCHANGED <<listening, notifications, tasks, calls>>

\* ------------------------------------------------------ handler invocations
\* One record per running or finished handler invocation.
\*   list  the recipients its loop iterates, in order
\*   i     the iteration it is at (Len(list) + 1 once the loop is over)
\*   pc    "await": suspended in `await createNotification(...)` of iteration i
\*         "done":  returned
\*   bcast the sockets an io.emit of the handler reached
\*   log   one entry per iteration taken so far: what it decided, the sockets
\*         its emit reached, and the recipient's open sockets at that moment
NewCall(origin, handler, type, sock, actor, taskId, list, bcast) ==
    [origin |-> origin, handler |-> handler, type |-> type, sock |-> sock,
     actor |-> actor, taskId |-> taskId, list |-> list, i |-> 1,
     pc |-> "done", bcast |-> bcast, log |-> <<>>]

Entry(u, kind, to, res) ==
    [user |-> u, kind |-> kind, to |-> to, open |-> OpenSidsOf(u), res |-> res]

\* if (userId === socket.userId) continue;   -- comment:new only
SkipsSelf(handler) == handler = "comment:new"

\* an online check that finds nobody
IsConnectedNever(u) == FALSE

\* connectedUsers.has(id)
IsConnected(u) == MapHas(connectedUsers, u)

\* io.to(connectedUsers.get(id)): the room the push is addressed to
PushRoom(u) == SidRoom(MapGet(connectedUsers, u))

\* The recipient loop of a socket handler from iteration call.i on, up to its
\* next `await createNotification` or its end.
RECURSIVE SocketLoop(_)
SocketLoop(call) ==
    IF call.i > Len(call.list) THEN [call EXCEPT !.pc = "done"]
    ELSE LET u == call.list[call.i]
         IN  IF SkipsSelf(call.handler) /\ u = call.actor
             THEN SocketLoop([call EXCEPT !.i = @ + 1,
                      !.log = Append(@, Entry(u, "skip", {}, "none"))])
             ELSE IF IsConnected(u)
             THEN SocketLoop([call EXCEPT !.i = @ + 1,
                      !.log = Append(@, Entry(u, "push", InRoom(PushRoom(u)), "none"))])
             ELSE [call EXCEPT !.pc = "await",
                      !.log = Append(@, Entry(u, "persist", {}, "pending"))]

\* handlers that keep receiving events after their socket has closed
CanEmitOnceListening(sid) ==
    /\ sid \in 1..Len(sockets)
    /\ sid \in listening
    /\ Len(calls) < MaxCalls

\* a client's event reaches a handler only on a connected socket
CanEmit(sid) ==
    /\ sid \in OpenSids
    /\ sid \in listening
    /\ Len(calls) < MaxCalls

StartSocket(call) ==
    /\ calls' = Append(calls, SocketLoop(call))
    /\ UNCHANGED <<sockets, connectedUsers, rooms, listening, notifications,
                   tasks, lastDisconnect>>

\* socket.on('task:update', async (data) => ...)
OnTaskUpdate(sid) ==
    /\ CanEmit(sid)
    /\ \E taskId \in TaskIds, assignees \in Lists :
          StartSocket(NewCall("socket", "task:update", "task:update", sid,
              sockets[sid].userId, taskId, assignees, {}))

\* socket.on('task:assign', async (data) => ...)
OnTaskAssign(sid) ==
    /\ CanEmit(sid)
    /\ \E taskId \in TaskIds, assigneeId \in Users :
          StartSocket(NewCall("socket", "task:assign", "task:assign", sid,
              sockets[sid].userId, taskId, <<assigneeId>>, {}))

\* socket.on('comment:new', async (data) => ...)
OnCommentNew(sid) ==
    /\ CanEmit(sid)
    /\ \E taskId \in TaskIds, taskCreator \in Users, assignees \in Lists :
          StartSocket(NewCall("socket", "comment:new", "comment:new", sid,
              sockets[sid].userId, taskId, <<taskCreator>> \o assignees, {}))

\* ------------------------------------------------------ createNotification
\* the message template each producer passes
Message(call) ==
    CASE call.handler = "task:assign" -> "You have been assigned to task"
      [] call.handler = "createTask"  -> "You have been assigned to task"
      [] call.handler = "task:update" -> "Task has been updated"
      [] call.handler = "updateTask"  -> "Task has been updated"
      [] call.handler = "deleteTask"  -> "Task has been deleted"
      [] call.handler = "comment:new" -> "New comment on task"
      [] call.handler = "addComment"  ->
            IF call.i = 1 THEN "New comment on your task" ELSE "New comment on task"

\* Notification.create({user, type, taskId, message}); read defaults to false
NotificationDoc(userId, type, taskId, message) ==
    [user |-> userId, type |-> type, taskId |-> taskId, message |-> message,
     read |-> FALSE]

\* a fallback write that reports success without storing the document
createNotificationDropping(store, userId, type, taskId, message, ok) ==
    store

\* The collection after createNotification: Notification.create stored the
\* document, or threw and the catch returned null.
createNotification(store, userId, type, taskId, message, ok) ==
    IF ok THEN Append(store, NotificationDoc(userId, type, taskId, message))
    ELSE store

\* ----------------------------------------------------------- HTTP producers
\* req.app.get('io').emit(...): every connected socket
Broadcast == OpenSids

\* if (assigneeId.toString() !== req.user._id.toString())
NotActor(u, actor) == u # actor

\* The "Store notifications for offline users" loop of a producer from
\* iteration call.i on, up to its next `await createNotification` or its end.
RECURSIVE HttpLoop(_)
HttpLoop(call) ==
    IF call.i > Len(call.list) THEN [call EXCEPT !.pc = "done"]
    ELSE LET u == call.list[call.i]
         IN  IF NotActor(u, call.actor)
             THEN [call EXCEPT !.pc = "await",
                      !.log = Append(@, Entry(u, "persist", {}, "pending"))]
             ELSE HttpLoop([call EXCEPT !.i = @ + 1,
                      !.log = Append(@, Entry(u, "skip", {}, "none"))])

CanRequest == Len(calls) < MaxRequests

\* Task.findById(req.params.id) found a document
Exists(id) == id \in 1..Len(tasks) /\ ~tasks[id].deleted

\* task.createdBy is req.user, or task.assignees.includes(req.user._id)
MayTouch(actor, id) ==
    tasks[id].createdBy = actor \/ actor \in Range(tasks[id].assignees)

StartHttp(call) ==
    /\ calls' = Append(calls, HttpLoop(call))
    /\ UNCHANGED <<sockets, connectedUsers, rooms, listening, notifications,
                   lastDisconnect>>

\* POST /api/tasks
createTask(actor) ==
    /\ CanRequest
    /\ Len(tasks) < MaxTasks
    /\ \E assignees \in Lists :
          /\ Len(assignees) > 0
          /\ LET allAssignees == Dedupe(assignees \o <<actor>>)
                 id == Len(tasks) + 1
             IN  /\ tasks' = Append(tasks, [createdBy |-> actor,
                                   assignees |-> allAssignees, comments |-> <<>>,
                                   deleted |-> FALSE])
                 /\ StartHttp(NewCall("http", "createTask", "task:assign", NoSock,
                        actor, id, assignees, Broadcast))

\* PUT /api/tasks/:id; body.assignees is optional
updateTask(actor, id) ==
    /\ CanRequest
    /\ Exists(id)
    /\ MayTouch(actor, id)
    /\ \E hasAssignees \in BOOLEAN, assignees \in Lists :
          LET updated == IF hasAssignees
                         THEN Dedupe(assignees \o <<tasks[id].createdBy>>)
                         ELSE tasks[id].assignees
          IN  /\ tasks' = [tasks EXCEPT ![id].assignees = updated]
              /\ StartHttp(NewCall("http", "updateTask", "task:update", NoSock,
                     actor, id, updated, Broadcast))

\* DELETE /api/tasks/:id
deleteTask(actor, id) ==
    /\ CanRequest
    /\ Exists(id)
    /\ tasks[id].createdBy = actor
    /\ tasks' = [tasks EXCEPT ![id].deleted = TRUE]
    /\ StartHttp(NewCall("http", "deleteTask", "task:update", NoSock,
           actor, id, tasks[id].assignees, Broadcast))

\* POST /api/tasks/:id/comments: the creator's notification, then the
\* assignees', each under the same not-the-commenter test
addComment(actor, id) ==
    /\ CanRequest
    /\ Exists(id)
    /\ MayTouch(actor, id)
    /\ tasks' = [tasks EXCEPT ![id].comments = Append(@, actor)]
    /\ StartHttp(NewCall("http", "addComment", "comment:new", NoSock,
           actor, id, <<tasks[id].createdBy>> \o tasks[id].assignees, Broadcast))

\* createNotification without its try/catch: a failed write rejects the
\* handler's promise and the loop never runs on
ContinueUnlessFailed(call) ==
    IF call.log[Len(call.log)].res = "failed" THEN [call EXCEPT !.pc = "done"]
    ELSE IF call.origin = "socket" THEN SocketLoop(call) ELSE HttpLoop(call)

\* the handler's loop after its await returned
Continue(call) ==
    IF call.origin = "socket" THEN SocketLoop(call) ELSE HttpLoop(call)

\* the awaited createNotification of call k settles and the handler runs on
Resume(k) ==
    /\ k \in 1..Len(calls)
    /\ calls[k].pc = "await"
    /\ \E ok \in BOOLEAN :
          LET call == calls[k]
              u    == call.list[call.i]
              n    == Len(call.log)
              next == [call EXCEPT !.i = @ + 1,
                          !.log[n].res = IF ok THEN "stored" ELSE "failed"]
          IN  /\ notifications' = createNotification(notifications, u, call.type,
                                      call.taskId, Message(call), ok)
              /\ calls' = [calls EXCEPT ![k] = Continue(next)]
    /\ UNCHANGED <<sockets, connectedUsers, rooms, listening, tasks,
                   lastDisconnect>>

\* handler invocations either specification can hold
CallIds == 1..(MaxCalls + MaxRequests)

Next ==
    \/ \E token \in Tokens : Connect(token)
    \/ \E sid \in Sids : Disconnect(sid)
    \/ \E sid \in Sids : OnTaskUpdate(sid)
    \/ \E sid \in Sids : OnTaskAssign(sid)
    \/ \E sid \in Sids : OnCommentNew(sid)
    \/ \E k \in CallIds : Resume(k)

NextHttp ==
    \/ \E token \in Tokens : Connect(token)
    \/ \E sid \in Sids : Disconnect(sid)
    \/ \E actor \in Users : createTask(actor)
    \/ \E actor \in Users, id \in TaskIds : updateTask(actor, id)
    \/ \E actor \in Users, id \in TaskIds : deleteTask(actor, id)
    \/ \E actor \in Users, id \in TaskIds : addComment(actor, id)
    \/ \E k \in CallIds : Resume(k)

\* the socket layer: clients connect, disconnect and emit events
Spec == Init /\ [][Next]_vars

\* Task documents earlier requests left in the database: createTask and
\* updateTask store the creator among the assignees, without duplicates
StoredAssignees(creator) ==
    {l \in Lists : creator \in Range(l) /\ Dedupe(l) = l}

StoredTasks ==
    {<<>>} \cup
    {<<[createdBy |-> c, assignees |-> l, comments |-> <<>>, deleted |-> FALSE]>> :
        c \in Users, l \in UNION {StoredAssignees(u) : u \in Users}}

InitHttp ==
    /\ sockets = <<>>
    /\ connectedUsers = EmptyMap
    /\ rooms = {}
    /\ listening = {}
    /\ notifications = <<>>
    /\ tasks \in {t \in StoredTasks :
                    \A i \in 1..Len(t) : t[i].assignees \in StoredAssignees(t[i].createdBy)}
    /\ calls = <<>>
    /\ lastDisconnect = [sid |-> NoSock, userId |-> NoUser, to |-> {}, stillOpen |-> {}]

\* the HTTP producers, with clients connecting and disconnecting
SpecHttp == InitHttp /\ [][NextHttp]_vars

\* ================================================================ claims
SocketCalls == {k \in 1..Len(calls) : calls[k].origin = "socket"}
HttpCalls   == {k \in 1..Len(calls) : calls[k].origin = "http"}
Iterations(k) == 1..Len(calls[k].log)

\* the iterations of call k that settled on user u with outcome `kind`
Outcomes(k, u, kind) ==
    {j \in Iterations(k) : calls[k].log[j].user = u /\ calls[k].log[j].kind = kind}

\* the iterations of call k whose fallback write for user u was stored
Stored(k, u) ==
    {j \in Outcomes(k, u, "persist") : calls[k].log[j].res = "stored"}

NoDuplicates(l) == \A i, j \in 1..Len(l) : l[i] = l[j] => i = j

\* the assignees array call k iterates: comment:new and addComment put the
\* task creator in front of it
SentAssignees(k) ==
    IF calls[k].handler \in {"comment:new", "addComment"}
    THEN Tail(calls[k].list) ELSE calls[k].list

\* C1: in a socket dispatch, a recipient other than the emitting user that
\* has an open connection when its iteration decides gets a live push that
\* reaches one of its connections, and no fallback record.
C1_OnlineRecipientIsPushed ==
    \A k \in SocketCalls : \A j \in Iterations(k) :
        LET e == calls[k].log[j]
        IN  (e.user # calls[k].actor /\ e.open # {}) =>
                (e.kind = "push" /\ e.to \cap e.open # {})

\* C2: a socket dispatch whose assignees array has no duplicates, once it has
\* returned with every write stored, has created exactly one fallback record
\* for each recipient that never had an open connection at its iterations,
\* and pushed nothing to it.
C2_OfflineRecipientGetsOneRecord ==
    \A k \in SocketCalls :
        (/\ calls[k].pc = "done"
         /\ NoDuplicates(SentAssignees(k))
         /\ \A j \in Iterations(k) : calls[k].log[j].res # "failed") =>
            \A u \in Range(calls[k].list) \ {calls[k].actor} :
                (\A j \in Iterations(k) :
                    calls[k].log[j].user = u => calls[k].log[j].open = {}) =>
                    /\ Cardinality(Stored(k, u)) = 1
                    /\ Outcomes(k, u, "push") = {}

\* C3: no socket dispatch pushes to, or writes a fallback record for, the
\* user whose connection emitted the event, whatever the event type.
C3_ActorNeverNotified ==
    \A k \in SocketCalls : \A j \in Iterations(k) :
        calls[k].log[j].user = calls[k].actor => calls[k].log[j].kind = "skip"

\* C4: when a connection closes while its user has another open connection
\* the registry still has the user; when a user's last connection closes
\* the entry is removed.
C4_OnlineUntilLastDisconnect ==
    [][\A s \in OpenSids :
          sockets'[s].state = "closed" =>
              LET u == sockets[s].userId
              IN  MapHas(connectedUsers', u) <=> (OpenSidsOf(u) \ {s} # {})]_vars

\* C5: the registry has an entry for a user exactly when that user has an
\* open connection.
C5_EntryIffOpenConnection ==
    \A u \in Users : MapHas(connectedUsers, u) <=> (OpenSidsOf(u) # {})

\* C6: a connection attempt whose token is absent or fails verification is
\* rejected and changes neither the registry, the rooms, the installed
\* handlers nor the notification collection.
C6_RejectedHasNoSideEffects ==
    [][(Len(sockets') = Len(sockets) + 1 /\ sockets'[Len(sockets')].cred # "valid") =>
          /\ sockets'[Len(sockets')].state = "rejected"
          /\ UNCHANGED <<connectedUsers, rooms, listening, notifications>>
          /\ \A p \in rooms' : p[2] # Len(sockets')
          /\ Len(sockets') \notin listening']_vars

\* C6 witness: an attempt with a token that fails verification was made while
\* another user was registered.
C6_Witness ==
    \E s \in 1..Len(sockets) :
        /\ sockets[s].state = "rejected"
        /\ sockets[s].cred = "invalid"
        /\ s > 1
        /\ DOMAIN connectedUsers # {}

\* C7: a live push to a recipient other than the emitting user reaches every
\* connection that recipient has open at the time of the push.
C7_PushReachesEveryConnection ==
    \A k \in SocketCalls : \A j \in Iterations(k) :
        LET e == calls[k].log[j]
        IN  (e.kind = "push" /\ e.user # calls[k].actor) => e.open \subseteq e.to

\* the users an event is meant for: the iterated recipients but the actor
Recipients(k) == Range(calls[k].list) \ {calls[k].actor}

\* every socket an event of call k was delivered to
Reached(k) ==
    calls[k].bcast \cup UNION {calls[k].log[j].to : j \in Iterations(k)}

\* C8: an event is delivered only to connections of its recipients.
C8_OnlyRecipientsReached ==
    \A k \in 1..Len(calls) : \A s \in Reached(k) :
        sockets[s].userId \in Recipients(k)

\* C9: an HTTP producer writes a fallback record only for a recipient that
\* has no open connection.
C9_HttpPersistsOnlyOffline ==
    \A k \in HttpCalls : \A j \in Iterations(k) :
        calls[k].log[j].kind = "persist" => calls[k].log[j].open = {}

\* C10: an HTTP producer whose assignees array has no duplicates stores at
\* most one fallback record per recipient and none for the acting user; in
\* addComment the task creator, when not the commenter, gets exactly one.
C10_HttpOneRecordPerRecipient ==
    \A k \in HttpCalls :
        NoDuplicates(SentAssignees(k)) =>
            /\ Outcomes(k, calls[k].actor, "persist") = {}
            /\ \A u \in Users : Cardinality(Stored(k, u)) <= 1

\* C11: a failed fallback write stops nothing: the iteration after it is taken
\* in the same stretch, and a dispatch that has returned has taken one
\* iteration per entry of its recipient list, in order, none left pending.
C11_FailureDoesNotStopDispatch ==
    \A k \in SocketCalls :
        LET call == calls[k]
        IN  /\ \A j \in Iterations(k) :
                  (call.log[j].res = "failed" /\ j < Len(call.list)) =>
                      /\ Len(call.log) > j
                      /\ call.log[j + 1].user = call.list[j + 1]
            /\ call.pc = "done" =>
                  /\ Len(call.log) = Len(call.list)
                  /\ \A j \in Iterations(k) :
                        /\ call.log[j].user = call.list[j]
                        /\ call.log[j].res # "pending"

\* C11 witness: a write failed for the first recipient and the dispatch went
\* on to store a record for an offline second one, or to push to an online one.
C11_Witness ==
    \E k \in SocketCalls :
        /\ calls[k].pc = "done"
        /\ Len(calls[k].log) = 2
        /\ calls[k].log[1].res = "failed"
        /\ calls[k].log[2].user # calls[k].log[1].user
        /\ \/ calls[k].log[2].res = "stored"
           \/ calls[k].log[2].kind = "push"

\* C12: the online check and the push run in one uninterrupted stretch: every
\* push reaches a socket, and every socket it reaches is open at that moment
\* and owned by the recipient.
C12_PushReachesOpenSocketOfRecipient ==
    \A k \in SocketCalls : \A j \in Iterations(k) :
        LET e == calls[k].log[j]
        IN  e.kind = "push" => (e.to # {} /\ e.to \subseteq e.open)

\* C12 witness: a push to a user who had closed an earlier connection and
\* opened the one the push reached.
C12_Witness ==
    \E k \in SocketCalls : \E j \in Iterations(k) :
        LET e == calls[k].log[j]
        IN  /\ e.kind = "push"
            /\ e.user # calls[k].actor
            /\ \E d \in 1..Len(sockets), t \in e.to :
                  /\ sockets[d].userId = e.user
                  /\ sockets[d].state = "closed"
                  /\ d < t

\* C13: whenever a user:disconnect notice naming a user has been broadcast,
\* that user had no open connection left at that moment.
C13_NoticeOnlyWhenOffline ==
    lastDisconnect.userId # NoUser => lastDisconnect.stillOpen = {}

\* C14: a disconnect broadcasts its notice to every socket still connected
\* and leaves the notification collection as it was.
C14_DisconnectPersistsNothing ==
    [][\A s \in OpenSids :
          sockets'[s].state = "closed" =>
              /\ notifications' = notifications
              /\ lastDisconnect'.sid = s
              /\ lastDisconnect'.userId = sockets[s].userId
              /\ lastDisconnect'.to = {t \in 1..Len(sockets') : sockets'[t].state = "open"}]_vars

\* C14 witness: a socket disconnected while another socket was connected and
\* some user had no connection at all.
C14_Witness ==
    /\ lastDisconnect.sid # NoSock
    /\ lastDisconnect.to # {}
    /\ \E u \in Users : OpenSidsOf(u) = {} /\ u # lastDisconnect.userId

\* the sockets the registry, a room or an installed handler refers to
RegisteredSids ==
    {connectedUsers[u] : u \in DOMAIN connectedUsers} \cup {p[2] : p \in rooms}

C16_RegisterIsIdempotent ==
    \A u \in Users : \A s \in Sids :
        LET once  == MapSet(connectedUsers, u, s)
            twice == MapSet(once, u, s)
        IN  /\ twice = once
            /\ MapGet(twice, u) = s
            /\ DOMAIN twice = DOMAIN connectedUsers \cup {u}
            /\ (MapHas(connectedUsers, u) /\ MapGet(connectedUsers, u) = s) =>
                   once = connectedUsers

\* C16 witness: the connection handler has registered two users.
C16_Witness ==
    Cardinality(DOMAIN connectedUsers) >= 2

\* the stored documents addressed to user u for the event of call k
RecordsFor(k, u) ==
    {n \in 1..Len(notifications) :
        /\ notifications[n].user = u
        /\ notifications[n].type = calls[k].type
        /\ notifications[n].taskId = calls[k].taskId}

\* C17: in a socket dispatch every iteration taken is for the list entry at
\* its position; only the emitting user of comment:new is skipped; a push
\* reaches a connection of the recipient that is open at that moment; a
\* fallback write that succeeded left a document for the recipient; and a
\* dispatch that returned has taken an iteration for every list entry.
C17_NoEventLost ==
    \A k \in SocketCalls :
        LET call == calls[k]
        IN  /\ \A j \in Iterations(k) :
                  LET e == call.log[j]
                  IN  /\ e.user = call.list[j]
                      /\ e.kind \in {"skip", "push", "persist"}
                      /\ e.kind = "skip" =>
                            (e.user = call.actor /\ call.handler = "comment:new")
                      /\ e.kind = "push" => e.to \cap e.open # {}
                      /\ e.kind = "persist" => e.res \in {"pending", "stored", "failed"}
            /\ \A u \in Users :
                  Cardinality(RecordsFor(k, u)) >= Cardinality(Stored(k, u))
            /\ call.pc = "done" => Len(call.log) = Len(call.list)

\* C17 witness: the registry showed a user with an open connection as offline
\* and the dispatch stored a record for that user, after pushing to another.
C17_Witness ==
    \E k \in SocketCalls : \E j \in Iterations(k) :
        LET e == calls[k].log[j]
        IN  /\ e.kind = "persist"
            /\ e.res = "stored"
            /\ e.open # {}
            /\ e.user # calls[k].actor
            /\ RecordsFor(k, e.user) # {}
            /\ \E i \in Iterations(k) : calls[k].log[i].kind = "push"

\* the sockets of user u that went through the connection handler
RegisteredSidsOf(u) ==
    {s \in 1..Len(sockets) : sockets[s].userId = u /\ sockets[s].state # "rejected"}

\* C18: an entry of connectedUsers for user u holds the id of a socket that
\* is open, is owned by u, and is the latest socket of u the connection
\* handler registered.
C18_EntryIsLatestOpenOwnSocket ==
    \A u \in DOMAIN connectedUsers :
        LET s == connectedUsers[u]
        IN  /\ s \in 1..Len(sockets)
            /\ sockets[s].state = "open"
            /\ sockets[s].userId = u
            /\ \A t \in RegisteredSidsOf(u) : t <= s

\* C18 witness: a user with two open sockets and an entry, after an earlier
\* socket of some user was closed.
C18_Witness ==
    \E u \in DOMAIN connectedUsers :
        /\ Cardinality(OpenSidsOf(u)) >= 2
        /\ \E d \in 1..Len(sockets) : sockets[d].state = "closed"

\* the fallback writes of socket dispatches that were stored
StoredWrites ==
    UNION {{<<k, j>> : j \in {i \in Iterations(k) : calls[k].log[i].res = "stored"}} :
              k \in SocketCalls}

\* C19: every iteration a socket dispatch takes in a step is for the list
\* entry at its position and, unless it skips the emitting user, is a push
\* exactly when connectedUsers has an entry for the recipient in that step,
\* and a fallback write otherwise; a push writes nothing, a fallback write
\* pushes nothing, an iteration already taken keeps its outcome, and the
\* collection holds one document per stored write.
C19_DecisionPerIteration ==
    [][/\ \A k \in SocketCalls' :
             \A j \in 1..Len(calls'[k].log) :
                 LET e     == calls'[k].log[j]
                     taken == k <= Len(calls) /\ j <= Len(calls[k].log)
                 IN  /\ e.user = calls'[k].list[j]
                     /\ (~taken /\ e.kind # "skip") =>
                            /\ e.kind = "push" <=> MapHas(connectedUsers, e.user)
                            /\ e.kind = "persist" <=> ~MapHas(connectedUsers, e.user)
                     /\ e.kind = "push" => (e.res = "none" /\ e.to # {})
                     /\ e.kind = "persist" => (e.res # "none" /\ e.to = {})
                     /\ taken =>
                            /\ e.user = calls[k].log[j].user
                            /\ e.kind = calls[k].log[j].kind
                            /\ e.to = calls[k].log[j].to
       /\ Len(notifications') = Cardinality(StoredWrites')]_vars

\* C19 witness: one dispatch took two iterations for the same user, found the
\* user absent in the first and stored a record, and found the user present
\* in the second and pushed: the user connected while the write was awaited.
C19_Witness ==
    \E k \in SocketCalls :
        /\ Len(calls[k].log) = 2
        /\ calls[k].log[1].user = calls[k].log[2].user
        /\ calls[k].log[1].kind = "persist"
        /\ calls[k].log[1].res = "stored"
        /\ calls[k].log[2].kind = "push"

\* the entry of user u in connectedUsers, NoSock when there is none
EntryOf(u) == IF MapHas(connectedUsers, u) THEN MapGet(connectedUsers, u) ELSE NoSock

\* C20: the entry of user u changes only in a step in which a socket of u
\* connects, then to that socket's id, or a socket of u disconnects, then to
\* no entry; a step of a dispatch handler leaves connectedUsers as it was.
C20_RegistryFrame ==
    [][/\ \A u \in Users :
             EntryOf(u)' # EntryOf(u) =>
                 \/ /\ Len(sockets') = Len(sockets) + 1
                    /\ sockets'[Len(sockets')].userId = u
                    /\ sockets'[Len(sockets')].state = "open"
                    /\ EntryOf(u)' = Len(sockets')
                 \/ /\ \E s \in 1..Len(sockets) :
                          /\ sockets[s].userId = u
                          /\ sockets[s].state = "open"
                          /\ sockets'[s].state = "closed"
                    /\ EntryOf(u)' = NoSock
       /\ calls' # calls => connectedUsers' = connectedUsers]_vars

\* C20 witness: one user connected and disconnected after another user had
\* connected, a dispatch ran to its end, and the other user's entry is still
\* the one its connection wrote.
C20_Witness ==
    \E u \in DOMAIN connectedUsers :
        /\ \E d \in 1..Len(sockets) :
              /\ sockets[d].state = "closed"
              /\ sockets[d].userId # u
              /\ d > connectedUsers[u]
        /\ \E k \in SocketCalls :
              /\ calls[k].pc = "done"
              /\ \E j \in Iterations(k) : calls[k].log[j].res = "stored"

====
